---------------------------- MODULE Spec2Model ----------------------------
(***************************************************************************)
(* A model of the HTTP/1.1 client: the request builder and encoder         *)
(* (src/src/request.rs) and the response decoder (src/src/response.rs).    *)
(*                                                                         *)
(* Bytes are naturals 0..255 and a buffer is a sequence of bytes.  A Rust  *)
(* String is modelled as a sequence of code points; as_bytes and           *)
(* from_utf8_lossy convert between the two.  Option<T> is a record         *)
(* [some, val].  A Rust panic (slice index out of range, unwrap on Err) is *)
(* the outcome "Panic" of the call.                                        *)
(***************************************************************************)
EXTENDS Integers, Sequences, FiniteSets, TLC

(***************************************************************************)
(* Byte literals                                                           *)
(***************************************************************************)
\* b"HTTP/1.1"
HTTP_1_1 == <<72, 84, 84, 80, 47, 49, 46, 49>>
\* b" "
SPACE == <<32>>
\* b"\r\n"
CRLF == <<13, 10>>
\* b": "
COLON_SP == <<58, 32>>
\* b" HTTP/1.1\r\n"
REQUEST_LINE_END == <<32>> \o HTTP_1_1 \o CRLF

None == [some |-> FALSE, val |-> <<>>]
Some(v) == [some |-> TRUE, val |-> v]

Header(n, v) == [name |-> n, value |-> v]

(***************************************************************************)
(* Slices                                                                  *)
(***************************************************************************)
\* &bytes[i..] for 0 <= i <= len
SliceFrom(bytes, i) == SubSeq(bytes, i + 1, Len(bytes))

\* &bytes[..i]
SliceTo(bytes, i) == SubSeq(bytes, 1, i)

\* <[u8]>::starts_with
starts_with(bytes, seq) ==
    /\ Len(seq) <= Len(bytes)
    /\ SubSeq(bytes, 1, Len(seq)) = seq

(***************************************************************************)
(* UTF-8, on the bytes the model uses: ASCII, two-byte sequences           *)
(* (lead 0xC2..0xDF, continuation 0x80..0xBF) and bytes that start no      *)
(* sequence.                                                               *)
(***************************************************************************)
IsAscii(b) == b < 128
IsLead2(b) == b >= 194 /\ b <= 223
IsCont(b) == b >= 128 /\ b <= 191

RECURSIVE utf8_valid(_)
\* core::str::from_utf8(bytes).is_ok()
utf8_valid(bytes) ==
    IF bytes = <<>> THEN TRUE
    ELSE IF IsAscii(bytes[1]) THEN utf8_valid(Tail(bytes))
    ELSE IF IsLead2(bytes[1]) /\ Len(bytes) >= 2 /\ IsCont(bytes[2])
         THEN utf8_valid(SliceFrom(bytes, 2))
    ELSE FALSE

RECURSIVE from_utf8_lossy(_)
\* String::from_utf8_lossy: an invalid byte becomes U+FFFD (65533)
from_utf8_lossy(bytes) ==
    IF bytes = <<>> THEN <<>>
    ELSE IF IsAscii(bytes[1]) THEN <<bytes[1]>> \o from_utf8_lossy(Tail(bytes))
    ELSE IF IsLead2(bytes[1]) /\ Len(bytes) >= 2 /\ IsCont(bytes[2])
         THEN <<(bytes[1] - 192) * 64 + (bytes[2] - 128)>>
                  \o from_utf8_lossy(SliceFrom(bytes, 2))
    ELSE <<65533>> \o from_utf8_lossy(Tail(bytes))

RECURSIVE as_bytes(_)
\* str::as_bytes: the UTF-8 encoding, for code points below U+0800
as_bytes(s) ==
    IF s = <<>> THEN <<>>
    ELSE IF s[1] < 128 THEN <<s[1]>> \o as_bytes(Tail(s))
    ELSE <<192 + (s[1] \div 64), 128 + (s[1] % 64)>> \o as_bytes(Tail(s))

(***************************************************************************)
(* Decimal text                                                            *)
(***************************************************************************)
RECURSIVE format_decimal(_)
\* format!("{len}")
format_decimal(n) ==
    IF n < 10 THEN <<48 + n>>
    ELSE format_decimal(n \div 10) \o <<48 + (n % 10)>>

IsDigit(b) == b >= 48 /\ b <= 57

RECURSIVE parse_digits(_, _)
\* the digit loop of <u16 as FromStr>::from_str: -1 on an invalid digit or
\* on overflow of u16
parse_digits(digits, acc) ==
    IF digits = <<>> THEN acc
    ELSE IF ~IsDigit(digits[1]) THEN -1
    ELSE LET next == acc * 10 + (digits[1] - 48) IN
         IF next > 65535 THEN -1 ELSE parse_digits(Tail(digits), next)

\* str::parse::<u16>: an empty string is an error, one leading '+' is
\* accepted, a lone sign is an error
parse_u16(s) ==
    IF s = <<>> THEN -1
    ELSE IF s = <<43>> \/ s = <<45>> THEN -1
    ELSE IF s[1] = 43 THEN parse_digits(Tail(s), 0)
    ELSE parse_digits(s, 0)

(***************************************************************************)
(* response.rs: the scan primitives                                        *)
(***************************************************************************)
\* expect_skip
expect_skip(bytes, seq) ==
    IF ~starts_with(bytes, seq) THEN [ok |-> FALSE, rest |-> <<>>]
    ELSE [ok |-> TRUE, rest |-> SliceFrom(bytes, Len(seq))]

RECURSIVE scan_index(_, _, _)
\* the while loop of extract_until: the first i with bytes[i..] starting
\* with seq; -1 when bytes[i..] is indexed with i > len (a panic)
scan_index(bytes, seq, i) ==
    IF i > Len(bytes) THEN -1
    ELSE IF starts_with(SliceFrom(bytes, i), seq) THEN i
    ELSE scan_index(bytes, seq, i + 1)

\* extract_until with the scan started one byte late
extract_until_late(bytes, seq) ==
    LET i == scan_index(bytes, seq, 1) IN
    IF i < 0 THEN [panic |-> TRUE, rest |-> <<>>, extracted |-> <<>>]
    ELSE [panic |-> FALSE,
          rest |-> SliceFrom(bytes, i + Len(seq)),
          extracted |-> SliceTo(bytes, i)]

\* extract_until
extract_until(bytes, seq) ==
    LET i == scan_index(bytes, seq, 0) IN
    IF i < 0 THEN [panic |-> TRUE, rest |-> <<>>, extracted |-> <<>>]
    ELSE [panic |-> FALSE,
          rest |-> SliceFrom(bytes, i + Len(seq)),
          extracted |-> SliceTo(bytes, i)]

\* extract_http_version comparing the major version only ("HTTP/1.")
extract_http_version_major(bytes) ==
    IF ~starts_with(bytes, SubSeq(HTTP_1_1, 1, 7)) THEN [ok |-> FALSE, rest |-> <<>>]
    ELSE [ok |-> TRUE, rest |-> SliceFrom(bytes, Len(HTTP_1_1))]

\* extract_http_version
extract_http_version(bytes) ==
    IF ~starts_with(bytes, HTTP_1_1) THEN [ok |-> FALSE, rest |-> <<>>]
    ELSE [ok |-> TRUE, rest |-> SliceFrom(bytes, Len(HTTP_1_1))]

(***************************************************************************)
(* response.rs: Response::from_bytes                                       *)
(***************************************************************************)
Outcome(o, status, headers, body) ==
    [outcome |-> o, status |-> status, headers |-> headers, body |-> body]

Err(e) == Outcome(e, 0, <<>>, None)

Panicked == Outcome("Panic", 0, <<>>, None)

\* drain that leaves the body absent when nothing follows the terminator
drain_consumed_nonempty(bytes, slice) ==
    IF slice = <<>> THEN None
    ELSE Some(SliceFrom(bytes, Len(bytes) - Len(slice)))

\* bytes.drain(0..bytes.len() - slice.len()); response.body = Some(bytes)
drain_consumed(bytes, slice) ==
    Some(SliceFrom(bytes, Len(bytes) - Len(slice)))

RECURSIVE header_loop(_, _, _, _)
\* the loop with an exhausted buffer treated as malformed
header_loop_strict(bytes, slice, status, headers) ==
    IF starts_with(slice, CRLF)
    THEN LET s == expect_skip(slice, CRLF) IN
         IF ~s.ok THEN Err("InvalidFormat")
         ELSE Outcome("Ok", status, headers, drain_consumed(bytes, s.rest))
    ELSE IF slice = <<>> THEN Err("InvalidFormat")
    ELSE LET n == extract_until(slice, COLON_SP) IN
         IF n.panic THEN Panicked
         ELSE LET v == extract_until(n.rest, CRLF) IN
              IF v.panic THEN Panicked
              ELSE header_loop(bytes, v.rest, status,
                       Append(headers, Header(from_utf8_lossy(n.extracted),
                                              from_utf8_lossy(v.extracted))))

\* the while loop of from_bytes and what follows it
header_loop(bytes, slice, status, headers) ==
    IF starts_with(slice, CRLF)
    THEN LET s == expect_skip(slice, CRLF) IN
         IF ~s.ok THEN Err("InvalidFormat")
         ELSE Outcome("Ok", status, headers, drain_consumed(bytes, s.rest))
    ELSE IF slice = <<>> THEN Outcome("Ok", status, headers, None)
    ELSE LET n == extract_until(slice, COLON_SP) IN
         IF n.panic THEN Panicked
         ELSE LET v == extract_until(n.rest, CRLF) IN
              IF v.panic THEN Panicked
              ELSE header_loop(bytes, v.rest, status,
                       Append(headers, Header(from_utf8_lossy(n.extracted),
                                              from_utf8_lossy(v.extracted))))

\* Response::from_bytes
from_bytes(bytes) ==
    LET ver == extract_http_version(bytes) IN
    IF ~ver.ok THEN Err("UnsupportedHttp")
    ELSE LET sp == expect_skip(ver.rest, SPACE) IN
    IF ~sp.ok THEN Err("InvalidFormat")
    ELSE LET st == extract_until(sp.rest, SPACE) IN
    IF st.panic THEN Panicked
    ELSE IF ~utf8_valid(st.extracted) THEN Panicked
    ELSE LET status == parse_u16(st.extracted) IN
    IF status < 0 THEN Panicked
    ELSE LET line == extract_until(st.rest, CRLF) IN
    IF line.panic THEN Panicked
    ELSE header_loop(bytes, line.rest, status, <<>>)

(***************************************************************************)
(* request.rs: Method, Request::write, RequestBuilder                      *)
(***************************************************************************)
\* Request::BUF_SIZE
BUF_SIZE == 1024

\* Method::as_bytes
method_as_bytes(method) ==
    IF method = "Get" THEN <<71, 69, 84>> ELSE <<80, 79, 83, 84>>

RECURSIVE write_headers_reversed(_)
\* the for loop of Request::write walking the list from its end
write_headers_reversed(headers) ==
    IF headers = <<>> THEN <<>>
    ELSE write_headers_reversed(Tail(headers))
             \o as_bytes(headers[1].name) \o COLON_SP
             \o as_bytes(headers[1].value) \o CRLF

RECURSIVE write_headers(_)
\* the for loop of Request::write
write_headers(headers) ==
    IF headers = <<>> THEN <<>>
    ELSE as_bytes(headers[1].name) \o COLON_SP
             \o as_bytes(headers[1].value) \o CRLF
             \o write_headers(Tail(headers))

\* Request::write with a "?" written before the query and the blank line
\* written whether or not there is a body
write_separated(request) ==
    method_as_bytes(request.method)
        \o SPACE
        \o as_bytes(request.url.path)
        \o (IF request.url.query.some
            THEN <<63>> \o as_bytes(request.url.query.val)
            ELSE <<>>)
        \o REQUEST_LINE_END
        \o write_headers(request.headers)
        \o CRLF
        \o (IF request.body.some THEN request.body.val ELSE <<>>)

\* Request::write: the bytes handed to the stream, in order
write(request) ==
    method_as_bytes(request.method)
        \o SPACE
        \o as_bytes(request.url.path)
        \o (IF request.url.query.some THEN as_bytes(request.url.query.val)
            ELSE <<>>)
        \o REQUEST_LINE_END
        \o write_headers(request.headers)
        \o (IF request.body.some THEN CRLF \o request.body.val ELSE <<>>)

\* RequestBuilder::new
builder_new(method, url) ==
    [method |-> method,
     body |-> None,
     headers |-> IF url.host.some
                 THEN <<Header(<<104, 111, 115, 116>>, url.host.val)>>
                 ELSE <<>>,
     url |-> url]

\* RequestBuilder::header
builder_header(request, name, value) ==
    [request EXCEPT !.headers = Append(@, Header(name, value))]

\* "content-length"
CONTENT_LENGTH == <<99, 111, 110, 116, 101, 110, 116, 45, 108, 101, 110, 103, 116, 104>>
\* "content-type"
CONTENT_TYPE == <<99, 111, 110, 116, 101, 110, 116, 45, 116, 121, 112, 101>>
\* "application/json"
APPLICATION_JSON == <<97, 112, 112, 108, 105, 99, 97, 116, 105, 111, 110, 47, 106, 115, 111, 110>>

\* RequestBuilder::json taking the length from the body the request had
builder_json_stale(request, bytes) ==
    builder_header(
        builder_header([request EXCEPT !.body = Some(bytes)],
                       CONTENT_LENGTH, format_decimal(Len(request.body.val))),
        CONTENT_TYPE, APPLICATION_JSON)

\* RequestBuilder::json, given the bytes serde_json::to_vec returned
builder_json(request, bytes) ==
    builder_header(
        builder_header([request EXCEPT !.body = Some(bytes)],
                       CONTENT_LENGTH, format_decimal(Len(bytes))),
        CONTENT_TYPE, APPLICATION_JSON)

(***************************************************************************)
(* Bounds and input sets                                                   *)
(***************************************************************************)
\* longest header list the builder is driven to
MaxHeaders == 5
\* the peer's response spans up to MaxChunks full read buffers (plus one byte)
MaxChunks == 1
\* number of tokens after the status line of a raw decoder input
MaxTokens == 4
\* longest header list of a constructed response
MaxLawHeaders == 2

RECURSIVE Flatten(_)
Flatten(seqs) ==
    IF seqs = <<>> THEN <<>> ELSE seqs[1] \o Flatten(Tail(seqs))

SeqsUpTo(S, n) == UNION {[1..k -> S] : k \in 0..n}

\* the parsed URLs requests are built for: http://h/ , http://h/p?q=1 and a
\* URL without a host (path "p")
Urls ==
    {[host |-> Some(<<104>>), path |-> <<47>>, query |-> None],
     [host |-> Some(<<104>>), path |-> <<47, 112>>, query |-> Some(<<113, 61, 49>>)],
     [host |-> None, path |-> <<112>>, query |-> None]}

Methods == {"Get", "Post"}

\* the headers handed to RequestBuilder::header: ("a", "1") and ("\u{e9}", "")
BuilderHeaders == {Header(<<97>>, <<49>>), Header(<<233>>, <<>>)}

\* the values handed to RequestBuilder::json
Payloads == {"object", "array", "unserializable"}

\* serde_json::to_vec: {} , [1,2,3,4,5] , or an error
to_vec(payload) ==
    IF payload = "object" THEN [ok |-> TRUE, bytes |-> <<123, 125>>]
    ELSE IF payload = "array"
         THEN [ok |-> TRUE,
               bytes |-> <<91, 49, 44, 50, 44, 51, 44, 52, 44, 53, 93>>]
    ELSE [ok |-> FALSE, bytes |-> <<>>]

\* b"HTTP/1.1 200 OK\r\n\r\n"
OK_RESPONSE == HTTP_1_1 \o <<32, 50, 48, 48, 32, 79, 75>> \o CRLF \o CRLF

\* what the peer sends before it closes: nothing, or a 200 response padded
\* with a body of 'a' to k bytes
ResponseOfLen(k) ==
    IF k < Len(OK_RESPONSE) THEN <<>>
    ELSE OK_RESPONSE \o [i \in 1..(k - Len(OK_RESPONSE)) |-> 97]

StreamLens ==
    {0, Len(OK_RESPONSE)}
        \cup {k * BUF_SIZE + d : k \in 1..MaxChunks, d \in {-1, 0, 1}}

\* the sizes one TcpStream::read may return with avail bytes still to come
ReadSizes(avail) ==
    IF avail = 0 THEN {0}
    ELSE {n \in {1, avail, BUF_SIZE - 1, BUF_SIZE} :
              n >= 1 /\ n <= avail /\ n <= BUF_SIZE}

\* raw decoder inputs: a head, the text of a status line, then tokens
Heads ==
    {<<>>,
     <<72, 84, 84, 80, 47, 49, 46>>,               \* "HTTP/1."
     <<72, 84, 84, 80, 47, 49, 46, 48, 32>>,       \* "HTTP/1.0 "
     <<72, 84, 84, 80, 47, 50, 32>>,               \* "HTTP/2 "
     <<104, 116, 116, 112, 47, 49, 46, 49, 32>>,   \* "http/1.1 "
     <<32>> \o HTTP_1_1 \o <<32>>,                 \* " HTTP/1.1 "
     HTTP_1_1}                                     \* "HTTP/1.1" (no space)

StatusTexts ==
    {<<>>,
     <<50, 48, 48, 32, 79, 75>> \o CRLF,           \* "200 OK\r\n"
     <<52, 48, 52, 32>> \o CRLF,                   \* "404 \r\n"
     <<50, 48, 48>>,                               \* "200"
     <<50, 48, 48>> \o CRLF,                       \* "200\r\n"
     <<50, 48, 48, 32, 79, 75>>,                   \* "200 OK"
     <<79, 75, 32, 79, 75>> \o CRLF,               \* "OK OK\r\n"
     <<32, 79, 75>> \o CRLF,                       \* " OK\r\n"
     <<54, 53, 53, 51, 53, 32>> \o CRLF,           \* "65535 \r\n"
     <<54, 53, 53, 51, 54, 32>> \o CRLF,           \* "65536 \r\n"
     <<43, 55, 32>> \o CRLF,                       \* "+7 \r\n"
     <<255, 32>> \o CRLF}                          \* "\xff \r\n"

Tokens ==
    {<<97>>,                                       \* "a"
     COLON_SP,
     CRLF,
     <<13>>,                                       \* "\r"
     <<255>>,                                      \* "\xff"
     CONTENT_LENGTH \o COLON_SP \o <<50>> \o CRLF} \* "content-length: 2\r\n"

RawInputs ==
    {h \o s \o Flatten(t) : h \in Heads, s \in StatusTexts, t \in SeqsUpTo(Tokens, 1)}
        \cup {HTTP_1_1 \o SPACE \o s \o Flatten(t) :
                  s \in StatusTexts, t \in SeqsUpTo(Tokens, MaxTokens)}

\* constructed responses: a status line, header lines written the way
\* Request::write writes them, then either the end of the buffer or the
\* blank line and a body
LawNames == {<<97>>, <<233>>, <<97, 58>>, <<>>, <<10>>}         \* a  e'  a:  ""  \n
LawValues == {<<98>>, <<>>, COLON_SP, <<98, 13>>}              \* b  ""  ": "  b\r
LawHeaders == {Header(n, v) : n \in LawNames, v \in LawValues}
LawStatus == {0, 200, 65535}
LawReasons == {<<>>, <<78, 111, 116, 32, 70, 111, 117, 110, 100>>}   \* "" and "Not Found"
LawBodies == {<<>>, CRLF \o <<97>>}

\* whether the blank line is written, and the body after it
LawEndings ==
    {[term |-> FALSE, body |-> <<>>]}
        \cup {[term |-> TRUE, body |-> b] : b \in LawBodies}

Givens ==
    {[status |-> st, reason |-> r, headers |-> hs, term |-> e.term, body |-> e.body] :
        st \in LawStatus, r \in LawReasons,
        hs \in SeqsUpTo(LawHeaders, MaxLawHeaders),
        e \in LawEndings}

NoGiven ==
    [status |-> 0, reason |-> <<>>, headers |-> <<>>, term |-> FALSE, body |-> <<>>]

response_bytes(g) ==
    HTTP_1_1 \o SPACE \o format_decimal(g.status) \o SPACE \o g.reason \o CRLF
        \o write_headers(g.headers)
        \o (IF g.term THEN CRLF \o g.body ELSE <<>>)

(***************************************************************************)
(* State                                                                   *)
(***************************************************************************)
VARIABLES
    pc,         \* "build", "reading", "decode" or "done"
    request,    \* the Request inside the RequestBuilder
    payload,    \* the bytes the most recent json call serialized (history)
    wire,       \* the bytes Request::write wrote to the stream
    incoming,   \* the bytes the peer sends before it closes
    delivered,  \* how many of them stream.read has returned
    sink,       \* send's sink; the argument of Response::from_bytes
    result,     \* what send / from_bytes returned
    given       \* the response a constructed input was built from

vars == <<pc, request, payload, wire, incoming, delivered, sink, result, given>>

NoResult == Outcome("None", 0, <<>>, None)

(***************************************************************************)
(* The client: RequestBuilder, then Request::send                          *)
(***************************************************************************)
Init ==
    /\ pc = "build"
    /\ \E m \in Methods, u \in Urls : request = builder_new(m, u)
    /\ payload = None
    /\ wire = None
    /\ incoming = <<>>
    /\ delivered = 0
    /\ sink = <<>>
    /\ result = NoResult
    /\ given = NoGiven

\* RequestBuilder::header
BuilderHeader ==
    /\ pc = "build"
    /\ Len(request.headers) < MaxHeaders
    /\ \E h \in BuilderHeaders :
           request' = builder_header(request, h.name, h.value)
    /\ UNCHANGED <<pc, payload, wire, incoming, delivered, sink, result, given>>

\* RequestBuilder::json
BuilderJson ==
    /\ pc = "build"
    /\ Len(request.headers) + 2 <= MaxHeaders
    /\ \E p \in Payloads :
           LET r == to_vec(p) IN
           IF r.ok
           THEN /\ request' = builder_json(request, r.bytes)
                /\ payload' = Some(r.bytes)
                /\ UNCHANGED <<pc, result>>
           ELSE /\ pc' = "done"
                /\ result' = Panicked
                /\ UNCHANGED <<request, payload>>
    /\ UNCHANGED <<wire, incoming, delivered, sink, given>>

\* Request::send up to the read loop: connect, write, flush
SendWrite ==
    /\ pc = "build"
    /\ request.url.host.some
    /\ wire' = Some(write(request))
    /\ \E k \in StreamLens : incoming' = ResponseOfLen(k)
    /\ pc' = "reading"
    /\ UNCHANGED <<request, payload, delivered, sink, result, given>>

\* Request::send: socket_addrs, connect, write_all, flush or read fails
SendIoError ==
    /\ pc \in {"build", "reading"}
    /\ pc' = "done"
    /\ result' = Err("Io")
    /\ UNCHANGED <<request, payload, wire, incoming, delivered, sink, given>>

\* Request::send: one pass of the read loop
SendRead ==
    /\ pc = "reading"
    /\ \E n \in ReadSizes(Len(incoming) - delivered) :
           /\ sink' = sink \o SubSeq(incoming, delivered + 1, delivered + n)
           /\ delivered' = delivered + n
           /\ pc' = IF n < BUF_SIZE THEN "decode" ELSE "reading"
    /\ UNCHANGED <<request, payload, wire, incoming, result, given>>

\* Request::send: Response::from_bytes(sink)
Decode ==
    /\ pc = "decode"
    /\ result' = from_bytes(sink)
    /\ pc' = "done"
    /\ UNCHANGED <<request, payload, wire, incoming, delivered, sink, given>>

Next ==
    \/ BuilderHeader
    \/ BuilderJson
    \/ SendWrite
    \/ SendIoError
    \/ SendRead
    \/ Decode

Spec == Init /\ [][Next]_vars

(***************************************************************************)
(* The decoder alone, on raw buffers                                       *)
(***************************************************************************)
InitDecode ==
    /\ pc = "decode"
    /\ request = builder_new("Get", CHOOSE u \in Urls : u.host.some /\ ~u.query.some)
    /\ payload = None
    /\ wire = None
    /\ sink \in RawInputs
    /\ incoming = sink
    /\ delivered = Len(sink)
    /\ result = NoResult
    /\ given = NoGiven

NextDecode == Decode

SpecDecode == InitDecode /\ [][NextDecode]_vars

(***************************************************************************)
(* The decoder on constructed responses                                    *)
(***************************************************************************)
InitLaw ==
    /\ pc = "decode"
    /\ request = builder_new("Get", CHOOSE u \in Urls : u.host.some /\ ~u.query.some)
    /\ payload = None
    /\ wire = None
    /\ given \in Givens
    /\ sink = response_bytes(given)
    /\ incoming = sink
    /\ delivered = Len(sink)
    /\ result = NoResult

NextLaw == Decode

SpecLaw == InitLaw /\ [][NextLaw]_vars

(***************************************************************************)
(* Vocabulary of the properties                                            *)
(***************************************************************************)
OccursAt(bytes, seq, i) ==
    /\ i >= 1
    /\ i + Len(seq) - 1 <= Len(bytes)
    /\ SubSeq(bytes, i, i + Len(seq) - 1) = seq

Occurrences(bytes, seq) == {i \in 1..Len(bytes) : OccursAt(bytes, seq, i)}

Occurs(bytes, seq) == Occurrences(bytes, seq) # {}

CountOcc(bytes, seq) == Cardinality(Occurrences(bytes, seq))

\* index of the first occurrence, 0 when there is none
FirstOcc(bytes, seq) ==
    IF Occurs(bytes, seq)
    THEN CHOOSE i \in Occurrences(bytes, seq) :
             \A j \in Occurrences(bytes, seq) : i <= j
    ELSE 0

EndsWith(bytes, seq) == OccursAt(bytes, seq, Len(bytes) - Len(seq) + 1)

BlankLine == CRLF \o CRLF

VersionSpace == HTTP_1_1 \o SPACE

\* the buffer begins with "HTTP/1.1 "
HasVersionSpace(bytes) == OccursAt(bytes, VersionSpace, 1)

\* what follows "HTTP/1.1 "
AfterVersion(bytes) == SubSeq(bytes, Len(VersionSpace) + 1, Len(bytes))

\* the status token: what precedes the first space after "HTTP/1.1 "
StatusToken(bytes) ==
    SubSeq(AfterVersion(bytes), 1, FirstOcc(AfterVersion(bytes), SPACE) - 1)

RECURSIVE Pow10(_)
Pow10(n) == IF n = 0 THEN 1 ELSE 10 * Pow10(n - 1)

RECURSIVE SumTo(_, _)
SumTo(f, n) == IF n = 0 THEN 0 ELSE f[n] + SumTo(f, n - 1)

\* the number a digit string denotes
DecValue(t) ==
    SumTo([i \in 1..Len(t) |-> (t[i] - 48) * Pow10(Len(t) - i)], Len(t))

AllDigits(t) == \A i \in 1..Len(t) : t[i] >= 48 /\ t[i] <= 57

\* t is the decimal text of an unsigned 16-bit integer
IsU16Text(t) == t # <<>> /\ AllDigits(t) /\ DecValue(t) <= 65535

\* t is the decimal text of n as format! prints it
IsDecimalOf(t, n) ==
    /\ t # <<>>
    /\ AllDigits(t)
    /\ (Len(t) > 1 => t[1] # 48)
    /\ DecValue(t) = n

Decoded == pc = "done" /\ result.outcome # "None"

DecodedOk == pc = "done" /\ result.outcome = "Ok"

\* what lies after the status line's "\r\n" of a buffer
AfterStatusLine(bytes) ==
    SubSeq(bytes, FirstOcc(bytes, CRLF) + Len(CRLF), Len(bytes))

\* of a decoded buffer: the bytes between the status line and the empty-line
\* terminator, or the end of the buffer when the body is absent
HeaderSection ==
    SubSeq(sink, FirstOcc(sink, CRLF) + Len(CRLF),
           IF result.body.some
           THEN Len(sink) - Len(result.body.val) - Len(CRLF)
           ELSE Len(sink))

(***************************************************************************)
(* C1: a buffer that starts with "HTTP/1.1 " and lacks an expected         *)
(* delimiter (no space after the status token, no "\r\n" ending the status *)
(* line, or a header line without ": ") is answered with InvalidFormat,    *)
(* never with a panic.                                                     *)
(***************************************************************************)
\* a delimiter the scan looks for is missing from the buffer
MissingDelimiter(bytes) ==
    \/ ~Occurs(AfterVersion(bytes), SPACE)
    \/ ~Occurs(AfterVersion(bytes), CRLF)
    \/ /\ AfterStatusLine(bytes) # <<>>
       /\ ~OccursAt(AfterStatusLine(bytes), CRLF, 1)
       /\ ~Occurs(AfterStatusLine(bytes), COLON_SP)

C1_MissingDelimiterIsInvalidFormat ==
    (Decoded /\ HasVersionSpace(sink) /\ MissingDelimiter(sink))
        => result.outcome = "InvalidFormat"

(***************************************************************************)
(* C2: "HTTP/1.1 " + token + " " + rest, where token is not the decimal    *)
(* text of an unsigned 16-bit integer, is answered with InvalidFormat.     *)
(***************************************************************************)
C2_BadStatusIsInvalidFormat ==
    (/\ Decoded
     /\ HasVersionSpace(sink)
     /\ Occurs(AfterVersion(sink), SPACE)
     /\ ~IsU16Text(StatusToken(sink)))
        => result.outcome = "InvalidFormat"

(***************************************************************************)
(* C3: a buffer that does not begin with the eight bytes "HTTP/1.1" is     *)
(* answered with UnsupportedHttp and nothing else, whatever follows.       *)
(***************************************************************************)
LacksVersion(bytes) ==
    \/ Len(bytes) < 8
    \/ \E i \in 1..8 : bytes[i] # HTTP_1_1[i]

C3_UnsupportedVersion ==
    (Decoded /\ LacksVersion(sink)) => result = Err("UnsupportedHttp")

\* "HTTP/1.0 200 OK\r\n" and more was decoded
C3_Witness ==
    /\ Decoded
    /\ OccursAt(sink, <<72, 84, 84, 80, 47, 49, 46, 48, 32, 50, 48, 48, 32, 79, 75, 13, 10>>, 1)
    /\ Len(sink) > 17
    /\ result.outcome = "UnsupportedHttp"

(***************************************************************************)
(* C4: a decoded response has a body exactly when the header loop met the  *)
(* empty-line terminator; the body is then the suffix of the buffer after  *)
(* that terminator, whatever content-length says, and it is present (and   *)
(* empty) when nothing follows: "HTTP/1.1 200 OK\r\n\r\n" gives status     *)
(* 200, no headers and the empty body.                                     *)
(***************************************************************************)
C4_BodyIsRemainder ==
    DecodedOk =>
        /\ result.body.some =>
               LET k == Len(sink) - Len(result.body.val) IN
               /\ OccursAt(sink, BlankLine, k - 3)
               /\ SubSeq(sink, k + 1, Len(sink)) = result.body.val
        /\ ~result.body.some => ~EndsWith(sink, BlankLine)
        /\ sink = OK_RESPONSE => result = Outcome("Ok", 200, <<>>, Some(<<>>))

\* a response whose content-length header says 2 was decoded to a body of
\* one byte
C4_Witness ==
    /\ DecodedOk
    /\ result.body = Some(<<97>>)
    /\ Len(result.headers) = 1
    /\ result.headers[1] = Header(CONTENT_LENGTH, <<50>>)

(***************************************************************************)
(* C5: a well-formed status line followed by complete header lines and     *)
(* then the end of the buffer decodes to the status, the headers in order  *)
(* and no body.                                                            *)
(***************************************************************************)
C5_LenientEnd ==
    (Decoded /\ ~given.term)
        => result = Outcome("Ok", given.status, given.headers, None)

C5_Witness ==
    /\ Decoded
    /\ ~given.term
    /\ Len(given.headers) = 2
    /\ given.headers[1] # given.headers[2]
    /\ result.outcome = "Ok"
    /\ ~result.body.some

(***************************************************************************)
(* C6: the bytes Request::write emits are the method token, a space, the   *)
(* path, the query text when present (no "?" inserted), " HTTP/1.1\r\n",   *)
(* one "name: value\r\n" line per header in order and, only when a body is *)
(* present, "\r\n" and the body; without a body the output ends at the     *)
(* last line's "\r\n".                                                     *)
(***************************************************************************)
ExpectedRequestLine ==
    (IF request.method = "Get" THEN <<71, 69, 84>> ELSE <<80, 79, 83, 84>>)
        \o <<32>>
        \o as_bytes(request.url.path)
        \o (IF request.url.query.some THEN as_bytes(request.url.query.val) ELSE <<>>)
        \o <<32, 72, 84, 84, 80, 47, 49, 46, 49, 13, 10>>

ExpectedHeaderLines ==
    Flatten([i \in 1..Len(request.headers) |->
                 as_bytes(request.headers[i].name) \o <<58, 32>>
                     \o as_bytes(request.headers[i].value) \o <<13, 10>>])

C6_WireFormat ==
    wire.some =>
        /\ wire.val = ExpectedRequestLine \o ExpectedHeaderLines
                          \o (IF request.body.some
                              THEN <<13, 10>> \o request.body.val
                              ELSE <<>>)
        /\ ~Occurs(wire.val, <<63>>)
        /\ ~request.body.some =>
               EndsWith(wire.val, CRLF) /\ ~EndsWith(wire.val, BlankLine)

\* a request with a query, three headers and no body was written
C6_Witness ==
    /\ wire.some
    /\ request.url.query.some
    /\ ~request.body.some
    /\ Len(request.headers) >= 3

(***************************************************************************)
(* C7: whenever the built request has a body, its headers contain a        *)
(* content-length header whose value is the decimal length of the body,    *)
(* the body is the payload of the most recent json call, and the written   *)
(* request places the body after exactly one blank line.                   *)
(***************************************************************************)
C7_BodyHasContentLength ==
    request.body.some =>
        /\ \E i \in 1..Len(request.headers) :
               /\ request.headers[i].name = CONTENT_LENGTH
               /\ IsDecimalOf(request.headers[i].value, Len(request.body.val))
        /\ request.body = payload
        /\ wire.some =>
               LET head == SubSeq(wire.val, 1,
                                  Len(wire.val) - Len(request.body.val) - Len(CRLF))
               IN /\ wire.val = head \o CRLF \o request.body.val
                  /\ EndsWith(head, CRLF)
                  /\ ~EndsWith(head, BlankLine)

\* json was called twice, last with the 11-byte payload, and the request
\* was written
C7_Witness ==
    /\ wire.some
    /\ request.body.some
    /\ Len(request.body.val) = 11
    /\ \E i \in 1..Len(request.headers) :
           request.headers[i] = Header(CONTENT_LENGTH, <<50>>)

(***************************************************************************)
(* C8: header lines written the way the encoder writes them, after a       *)
(* status line and followed by the blank line, decode to the same list of  *)
(* (name, value) pairs in the same order.                                  *)
(***************************************************************************)
C8_OrderPreserved ==
    (Decoded /\ given.term)
        => /\ result.outcome = "Ok"
           /\ result.headers = given.headers

\* two headers of the same name and different values went through
C8_Witness ==
    /\ Decoded
    /\ given.term
    /\ Len(given.headers) = 2
    /\ given.headers[1].name = given.headers[2].name
    /\ given.headers[1].value # given.headers[2].value
    /\ result.headers = given.headers

(***************************************************************************)
(* C9: however the transport splits the response over reads, the read loop *)
(* of send ends only at end-of-data: the buffer handed to from_bytes is    *)
(* everything the peer sent.                                               *)
(***************************************************************************)
C9_DecodeSeesWholeResponse ==
    pc = "decode" => (delivered = Len(incoming) /\ sink = incoming)

(***************************************************************************)
(* C10: in a decoded response no header name and no header value contains  *)
(* "\r\n", and there are as many headers as "\r\n"-terminated lines        *)
(* between the status line and the terminator (or the end of the buffer).  *)
(***************************************************************************)
C10_OneLinePerHeader ==
    DecodedOk =>
        /\ \A i \in 1..Len(result.headers) :
               /\ ~Occurs(result.headers[i].name, CRLF)
               /\ ~Occurs(result.headers[i].value, CRLF)
        /\ Len(result.headers) = CountOcc(HeaderSection, CRLF)

\* C10, amended: no header value contains "\r\n" and no header name contains
\* ": " or begins with "\r\n"; a name may contain "\r\n", and the number of
\* headers is the number of "\r\n"-terminated lines of the header section
\* less the number of "\r\n" inside names.
C10_LinesPerHeader ==
    DecodedOk =>
        /\ \A i \in 1..Len(result.headers) :
               /\ ~Occurs(result.headers[i].value, CRLF)
               /\ ~Occurs(result.headers[i].name, COLON_SP)
               /\ ~OccursAt(result.headers[i].name, CRLF, 1)
        /\ Len(result.headers)
               + SumTo([i \in 1..Len(result.headers) |->
                            CountOcc(result.headers[i].name, CRLF)],
                       Len(result.headers))
             = CountOcc(HeaderSection, CRLF)

\* a header whose name spans two lines was decoded
C10_Witness ==
    /\ DecodedOk
    /\ Len(result.headers) = 1
    /\ Occurs(result.headers[1].name, CRLF)
    /\ CountOcc(HeaderSection, CRLF) = 2

=============================================================================
